---------------------------- MODULE Spec2Model ----------------------------
(***************************************************************************)
(* A model of count-components.ts: the directory walk (scanDirectory), the *)
(* batched read-and-extract pipeline (processFiles / processFile), the     *)
(* extraction of component names (extractComponents) and the entry point   *)
(* (countReactComponents).                                                 *)
(*                                                                         *)
(* Representation of strings.                                              *)
(*  - An entry name is the sequence of its dot-separated segments:         *)
(*    "App.tsx" is <<"App","tsx">>, ".git" is <<"","git">>, "src" is       *)
(*    <<"src">>.  path.extname and Set.has are computed on that form.      *)
(*  - A path is the sequence of the names joined by path.join.             *)
(*  - A component name is the sequence of its characters, so that          *)
(*    .length and the [A-Z] character class are computed, not assumed.     *)
(*  - A file's text is a sequence of source fragments taken from a fixed   *)
(*    catalogue of fragment forms; for every form the result of each       *)
(*    String.includes test and of each regular expression is tabulated     *)
(*    from the expressions of the source.                                  *)
(***************************************************************************)
EXTENDS Integers, Sequences, FiniteSets, TLC

(***************************************************************************)
(* Bounds of the model.                                                    *)
(***************************************************************************)
\* Batch sizes 2..MaxBatchSize are explored next to the default of the code.
MaxBatchSize == 3

\* processFiles(files, batchSize = 50)
DefaultBatchSize == 50

BatchSizes == (2..MaxBatchSize) \cup {DefaultBatchSize}

(***************************************************************************)
(* Filter tables.                                                          *)
(***************************************************************************)
\* Faulty variant: ".tsx" is missing from the set.
VALID_EXTENSIONS_NoTsx == { <<"", "ts">>, <<"", "jsx">>, <<"", "js">> }

VALID_EXTENSIONS == { <<"", "tsx">>, <<"", "ts">>, <<"", "jsx">>, <<"", "js">> }

IGNORED_DIRS ==
  { <<"node_modules">>, <<"dist">>, <<"build">>, <<"", "git">>, <<"", "next">>,
    <<"coverage">>, <<"", "cache">>, <<"out">>, <<"", "turbo">>, <<"", "vercel">> }

\* The names rejected by extractComponents, as character sequences.
REJECTED_NAMES ==
  { <<"T","e","s","t">>, <<"M","o","c","k">>, <<"U","t","i","l">>,
    <<"H","e","l","p","e","r">>, <<"C","o","n","f","i","g">> }

UpperCase ==
  { "A","B","C","D","E","F","G","H","I","J","K","L","M",
    "N","O","P","Q","R","S","T","U","V","W","X","Y","Z" }

(***************************************************************************)
(* path.extname and path.join.                                             *)
(***************************************************************************)
\* extname: from the last "." of the name to its end; "" when the name has
\* no "." or when its only "." is its first character.  The extension ".x"
\* is <<"", "x">> and the empty string is <<"">>.
extname(name) ==
  IF Len(name) < 2 \/ (Len(name) = 2 /\ name[1] = "")
    THEN <<"">>
    ELSE <<"", name[Len(name)]>>

join(dirPath, name) == Append(dirPath, name)


(***************************************************************************)
(* Source text.  A fragment is [form, name]; the forms are                 *)
(*   importReact            import React from 'react';                     *)
(*   exportConstFC          export const N: React.FC = () => {             *)
(*   exportConstArrow       export const N = () => <button>Icon</button>;  *)
(*   constArrow             const N = () => <div />;                       *)
(*   classExtendsReact      class N extends React.Component {              *)
(*   function               function N() {                                 *)
(*   exportFunction         export function N() {                          *)
(*   exportDefaultFunction  export default function N() {                  *)
(*   exportDefaultName      export default N;                              *)
(*   returnJsx              return <div>Hello World</div>;                 *)
(*   returnNumber           return 1; }                                    *)
(*   returnParen            return (                                       *)
(*   returnCall             return(null);                                  *)
(*   importJsx              import './styles.jsx';                         *)
(*   importTsx              import './types.tsx';                          *)
(***************************************************************************)
Frag(form, name) == [form |-> form, name |-> name]

NoName == <<>>

\* content.includes("React") || includes("jsx") || includes("tsx") ||
\* includes("return (") || includes("return(") for the text of one fragment.
\* The first three forms hold "React", the others "return (", "return(",
\* "jsx" and "tsx" in that order.
HasIndicator(frag) ==
  frag.form \in {"importReact", "exportConstFC", "classExtendsReact",
                 "returnParen", "returnCall", "importJsx", "importTsx"}

\* /return\s*</.test on the text of one fragment.
HasJsxReturn(frag) == frag.form = "returnJsx"

\* [A-Z][a-zA-Z0-9]* : the capture group of every pattern.  The names of the
\* model are alphanumeric, so the class test is on the first character; none
\* of them holds "React", "jsx" or "tsx".
IsCapturable(name) == Len(name) >= 1 /\ name[1] \in UpperCase

\* The forms each of COMPONENT_PATTERNS[1..6] matches, from the expressions.
PatternForms(p) ==
  CASE p = 1 -> {"function", "exportFunction", "exportDefaultFunction"}
    [] p = 2 -> {"constArrow", "exportConstArrow", "exportConstFC"}
    [] p = 3 -> {"classExtendsReact"}
    [] p = 4 -> {"exportDefaultFunction"}
    [] p = 5 -> {"exportConstArrow", "exportConstFC"}
    [] p = 6 -> {"exportFunction"}

NumPatterns == 6

\* content.matchAll(pattern): the captured names, in text order.
RECURSIVE matchAll(_, _)
matchAll(content, p) ==
  IF content = <<>> THEN <<>>
  ELSE LET f == Head(content)
           rest == matchAll(Tail(content), p)
       IN IF f.form \in PatternForms(p) /\ IsCapturable(f.name)
            THEN <<f.name>> \o rest
            ELSE rest

\* Faulty variant: the pre-check is left out.
PreCheckRejectsNever(content) == FALSE

\* Faulty variant: the /return\s*</ test is left out of the pre-check.
PreCheckRejectsNoRegex(content) ==
  \A i \in DOMAIN content : ~HasIndicator(content[i])

\* The pre-check of extractComponents: TRUE when the text is rejected.
PreCheckRejects(content) ==
  /\ \A i \in DOMAIN content : ~HasIndicator(content[i])
  /\ \A i \in DOMAIN content : ~HasJsxReturn(content[i])

\* Faulty variant: the length test is left out.
PassesNameFilterDenylistOnly(componentName) == componentName \notin REJECTED_NAMES

\* Faulty variant: the list of rejected names is left out.
PassesNameFilterLengthOnly(componentName) == Len(componentName) > 1

\* componentName.length > 1 && !["Test", ...].includes(componentName)
PassesNameFilter(componentName) ==
  Len(componentName) > 1 /\ componentName \notin REJECTED_NAMES

\* Faulty variant: an array and push in place of a Set and add.
RECURSIVE addAllPush(_, _)
addAllPush(components, names) ==
  IF names = <<>> THEN components
  ELSE addAllPush(IF PassesNameFilter(Head(names))
                    THEN Append(components, Head(names)) ELSE components,
                  Tail(names))

\* components.add for every element of a sequence of names: Set insertion
\* order, every name once.
RECURSIVE addAll(_, _)
addAll(components, names) ==
  IF names = <<>> THEN components
  ELSE LET n == Head(names)
           seen == \E i \in DOMAIN components : components[i] = n
       IN addAll(IF PassesNameFilter(n) /\ ~seen
                   THEN Append(components, n) ELSE components,
                 Tail(names))

RECURSIVE applyPatterns(_, _, _)
applyPatterns(content, p, components) ==
  IF p > NumPatterns THEN components
  ELSE applyPatterns(content, p + 1, addAll(components, matchAll(content, p)))

\* extractComponents(content): Array.from(components)
extractComponents(content) ==
  IF PreCheckRejects(content) THEN <<>>
  ELSE applyPatterns(content, 1, <<>>)

(***************************************************************************)
(* The directory tree that is scanned.  Its shape and its texts are fixed; *)
(* the root's name and kind, the directories whose listing fails and the   *)
(* files whose read fails are inputs.                                      *)
(***************************************************************************)
Dirent(name, type) == [name |-> name, type |-> type]

\* Faulty variant: the type is taken from stat, which follows links.
isDirectoryOfStat(entry) == entry.type \in { "dir", "link" }

\* Dirent.isDirectory(): false for a symbolic link, whatever it points to.
isDirectory(entry) == entry.type = "dir"
isFile(entry) == entry.type = "file"

cApp == <<"A","p","p">>
cButton == <<"B","u","t","t","o","n">>
cIconButton == <<"I","c","o","n","B","u","t","t","o","n">>
cHeader == <<"H","e","a","d","e","r">>
cUtilHelper == <<"U","t","i","l","H","e","l","p","e","r">>
cTest == <<"T","e","s","t">>
cPkg == <<"P","k","g">>
cOut == <<"O","u","t">>
cDoc == <<"D","o","c">>
cHidden == <<"H","i","d","d","e","n">>
cLinked == <<"L","i","n","k","e","d">>

\* Paths below the root, as sequences of names.
pApp == << <<"App","tsx">> >>
pReadme == << <<"README","md">> >>
pDotTs == << <<"","ts">> >>
pNodeModules == << <<"node_modules">> >>
pPkg == << <<"node_modules">>, <<"pkg","js">> >>
pSrc == << <<"src">> >>
pButton == << <<"src">>, <<"Button","jsx">> >>
pLink == << <<"src">>, <<"link","ts">> >>
pUtil == << <<"src">>, <<"util","test","ts">> >>
pBuild == << <<"src">>, <<"build">> >>
pOut == << <<"src">>, <<"build">>, <<"out","js">> >>
pLib == << <<"src">>, <<"lib","ts">> >>
pHeader == << <<"src">>, <<"lib","ts">>, <<"Header","js">> >>
pUp == << <<"src">>, <<"lib","ts">>, <<"up">> >>

\* readdir(dir, {withFileTypes: true}) of every directory, by relative path.
TreeListing ==
  ( <<>> :> << Dirent(<<"App","tsx">>, "file"),
               Dirent(<<"README","md">>, "file"),
               Dirent(<<"node_modules">>, "dir"),
               Dirent(<<"src">>, "dir"),
               Dirent(<<"","ts">>, "file") >> )
  @@ ( pNodeModules :> << Dirent(<<"pkg","js">>, "file") >> )
  @@ ( pSrc :> << Dirent(<<"Button","jsx">>, "file"),
                  Dirent(<<"link","ts">>, "link"),
                  Dirent(<<"build">>, "dir"),
                  Dirent(<<"lib","ts">>, "dir"),
                  Dirent(<<"util","test","ts">>, "file") >> )
  @@ ( pBuild :> << Dirent(<<"out","js">>, "file") >> )
  @@ ( pLib :> << Dirent(<<"up">>, "link"),
                  Dirent(<<"Header","js">>, "file") >> )

\* The text of every file (and of the target of the link), by relative path.
TreeText ==
  ( pApp :> << Frag("importReact", NoName), Frag("exportConstFC", cApp),
               Frag("returnJsx", NoName), Frag("function", cTest),
               Frag("exportDefaultName", cApp) >> )
  @@ ( pReadme :> << Frag("constArrow", cDoc), Frag("returnJsx", NoName) >> )
  @@ ( pDotTs :> << Frag("function", cHidden), Frag("returnJsx", NoName) >> )
  @@ ( pPkg :> << Frag("exportDefaultFunction", cPkg), Frag("returnJsx", NoName) >> )
  @@ ( pButton :> << Frag("importReact", NoName), Frag("exportConstFC", cButton),
                     Frag("returnJsx", NoName),
                     Frag("exportConstArrow", cIconButton) >> )
  @@ ( pLink :> << Frag("function", cLinked), Frag("returnJsx", NoName) >> )
  @@ ( pUtil :> << Frag("exportFunction", cUtilHelper),
                   Frag("returnNumber", NoName) >> )
  @@ ( pOut :> << Frag("function", cOut), Frag("returnJsx", NoName) >> )
  @@ ( pHeader :> << Frag("importReact", NoName),
                     Frag("classExtendsReact", cHeader),
                     Frag("returnJsx", NoName),
                     Frag("exportDefaultName", cHeader) >> )

\* Names the scan root may bear; the second one is in IGNORED_DIRS.
RootNames == { <<"proj">>, <<"build">> }

\* What stat finds at the root path.
RootKinds == { "missing", "file", "dir" }

\* The directories whose listing may fail and the files whose read may fail.
FlakyDirs == { <<>>, pSrc, pLib }
FlakyFiles == { pApp, pButton, pUtil, pHeader }

\* The symbolic links to directories, with their targets: src/lib.ts/up
\* points back to src.  (src/link.ts points to a regular file.)
TreeLinks == ( pUp :> pSrc )

\* A tree: what readdir lists and what readFile reads, by relative path, and
\* where its links to directories lead.
MainTree == [listing |-> TreeListing, text |-> TreeText, links |-> TreeLinks]

(***************************************************************************)
(* The sample project of example-usage.md: App.tsx, Button.tsx and         *)
(* Header.tsx and nothing else, each placed in the root, in src, in        *)
(* src/components or in lib.  (The interface declaration of Button.tsx and *)
(* the render method of Header.tsx hold no indicator and match no pattern; *)
(* export const Button: React.FC<ButtonProps> = ({ label, onClick }) => {  *)
(* matches the patterns of the form exportConstFC.)                        *)
(***************************************************************************)
SampleFiles == { <<"App","tsx">>, <<"Button","tsx">>, <<"Header","tsx">> }

SampleText(name) ==
  CASE name = <<"App","tsx">> ->
         << Frag("importReact", NoName), Frag("exportConstFC", cApp),
            Frag("returnJsx", NoName), Frag("exportDefaultName", cApp) >>
    [] name = <<"Button","tsx">> ->
         << Frag("importReact", NoName), Frag("exportConstFC", cButton),
            Frag("returnJsx", NoName), Frag("exportConstArrow", cIconButton) >>
    [] name = <<"Header","tsx">> ->
         << Frag("importReact", NoName), Frag("classExtendsReact", cHeader),
            Frag("returnJsx", NoName), Frag("exportDefaultName", cHeader) >>

pComponents == << <<"src">>, <<"components">> >>
pLibDir == << <<"lib">> >>

SampleDirs == { <<>>, pSrc, pComponents, pLibDir }

\* The directories of the sample project, by parent.
SampleSubDirs(dir) ==
  CASE dir = <<>> -> << <<"src">>, <<"lib">> >>
    [] dir = pSrc -> << <<"components">> >>
    [] OTHER -> <<>>

\* The files a placement puts in a directory, in a fixed order.
RECURSIVE FilesIn(_, _, _)
FilesIn(place, dir, todo) ==
  IF todo = <<>> THEN <<>>
  ELSE (IF place[Head(todo)] = dir THEN << Dirent(Head(todo), "file") >> ELSE <<>>)
         \o FilesIn(place, dir, Tail(todo))

SampleOrder == << <<"App","tsx">>, <<"Button","tsx">>, <<"Header","tsx">> >>

SampleTree(place) ==
  [ listing |->
      [ dir \in SampleDirs |->
          FilesIn(place, dir, SampleOrder)
            \o [ i \in DOMAIN SampleSubDirs(dir) |-> Dirent(SampleSubDirs(dir)[i], "dir") ] ],
    text |->
      [ p \in { Append(place[f], f) : f \in SampleFiles } |-> SampleText(p[Len(p)]) ],
    links |-> <<>> ]

SampleTrees == { SampleTree(place) : place \in [SampleFiles -> SampleDirs] }


(***************************************************************************)
(* State.                                                                  *)
(***************************************************************************)
VARIABLES
  rootName,    \* input: the last name of projectPath
  rootKind,    \* input: what stat(projectPath) finds
  listFails,   \* input: relative paths of the directories readdir rejects
  readFails,   \* input: relative paths of the files readFile rejects
  batchSize,   \* processFiles: the batchSize parameter
  pc,          \* countReactComponents / processFiles: the point of control
  files,       \* scanDirectory: the suspended generator frames, outermost first
  batch,       \* processFiles: batch, one slot per promise
  results,     \* processFiles: results
  report,      \* countReactComponents: <<>> or <<the CountResult returned>>
  error,       \* countReactComponents: <<>> or <<the message thrown>>
  listed,      \* history: the paths readdir was called with
  started,     \* history: the argument of every processFile call, in order
  completed,   \* history: the files whose processFile settled, in order
  tree,        \* input: the directory tree below the root
  hung,        \* input: relative paths of the files whose readFile never settles
  text,        \* extractComponents called alone: its argument
  upc,         \* extractComponents called alone: "idle", "call" or "returned"
  names,       \* extractComponents called alone: the array returned
  applied      \* history: the patterns matchAll was called with

vars == << rootName, rootKind, listFails, readFails, batchSize, pc, files,
           batch, results, report, error, listed, started, completed,
           tree, hung, text, upc, names, applied >>

inputs == << rootName, rootKind, listFails, readFails, batchSize, tree, hung >>

unit == << text, upc, names, applied >>

projectPath == << rootName >>

\* The path below the root.
Rel(path) == Tail(path)

(***************************************************************************)
(* The file system, as the three fs/promises calls see it.                 *)
(***************************************************************************)
\* The path the operating system resolves a relative path to: the first
\* link on it is replaced by its target, and so on.
RECURSIVE RealPath(_)
RealPath(p) ==
  LET linked == { k \in 1..Len(p) : SubSeq(p, 1, k) \in DOMAIN tree.links }
  IN IF linked = {} THEN p
     ELSE LET k == CHOOSE j \in linked : \A i \in linked : j <= i
          IN RealPath(tree.links[SubSeq(p, 1, k)] \o SubSeq(p, k + 1, Len(p)))

\* stat(projectPath) resolves, and stats.isDirectory() is true.
statIsDirectory(kind) == kind = "dir"

\* readdir(dirPath) resolves.
readdirResolves(dirPath) ==
  /\ rootKind = "dir"
  /\ RealPath(Rel(dirPath)) \in DOMAIN tree.listing
  /\ RealPath(Rel(dirPath)) \notin listFails

\* readFile(filePath, "utf-8") resolves: the file is opened at the path the
\* links on filePath lead to.
readFileResolves(filePath) ==
  /\ rootKind = "dir"
  /\ RealPath(Rel(filePath)) \in DOMAIN tree.text
  /\ RealPath(Rel(filePath)) \notin readFails

\* The content readFile resolves with.
readFile(filePath) == tree.text[RealPath(Rel(filePath))]

(***************************************************************************)
(* countReactComponents: the root check.                                   *)
(***************************************************************************)
\* Faulty variant: the stats.isDirectory() test is left out.
IsValidRootExists(kind) == kind # "missing"

\* Both the rejection of stat and the "not a directory" error thrown in the
\* try block end in the catch block, which throws "Invalid directory".
IsValidRoot(kind) == statIsDirectory(kind)

\* Faulty variant: the recursive call is made with the root path in place of
\* fullPath.
FrameOfRoot(dirPath) ==
  [dirPath |-> << dirPath[1] >>, listing |-> FALSE, entries |-> <<>>, idx |-> 1]

\* A generator frame: scanDirectory(dirPath) before its readdir has settled
\* (listing = FALSE) or inside its for loop, about to look at entries[idx].
Frame(dirPath) == [dirPath |-> dirPath, listing |-> FALSE, entries |-> <<>>, idx |-> 1]

Top == files[Len(files)]

Pop(stack) == SubSeq(stack, 1, Len(stack) - 1)

ReplaceTop(stack, frame) == [stack EXCEPT ![Len(stack)] = frame]

StatRoot ==
  /\ pc = "stat"
  /\ IF IsValidRoot(rootKind)
       THEN /\ pc' = "loop"
            /\ files' = << Frame(projectPath) >>
            /\ listed' = listed \cup { projectPath }
            /\ error' = error
       ELSE /\ pc' = "failed"
            /\ error' = << "Invalid directory" >>
            /\ UNCHANGED << files, listed >>
  /\ UNCHANGED << unit, inputs, batch, results, report, started, completed >>

(***************************************************************************)
(* scanDirectory.                                                          *)
(***************************************************************************)
\* Faulty variant: a failed listing ends the whole traversal.
AfterListFailureStop(stack) == <<>>

\* catch (error) { return; } : the frame of the unlistable directory ends,
\* the frames of its ancestors go on.
AfterListFailure(stack) == Pop(stack)

\* Faulty variant: scanDirectory tests the name of its own directory against
\* IGNORED_DIRS, the root included.
readdirOutcomeIgnoresSelf(dirPath) ==
  IF dirPath[Len(dirPath)] \in IGNORED_DIRS THEN "return"
  ELSE IF readdirResolves(dirPath) THEN "entries" ELSE "return"

\* Faulty variant: readdir is called outside the try statement.
readdirOutcomeUncaught(dirPath) ==
  IF readdirResolves(dirPath) THEN "entries" ELSE "throw"

\* try { entries = await readdir(...) } catch (error) { return; } : what the
\* try statement leaves to the generator, "entries", "return" or "throw".
readdirOutcome(dirPath) ==
  IF readdirResolves(dirPath) THEN "entries" ELSE "return"

\* await readdir(dirPath, { withFileTypes: true }) settles.  An error that
\* left the generator would leave the for await loop, processFiles and
\* countReactComponents.
ReaddirSettles ==
  /\ pc = "loop"
  /\ files # <<>>
  /\ ~Top.listing
  /\ LET outcome == readdirOutcome(Top.dirPath)
     IN /\ files' =
             IF outcome = "entries"
               THEN ReplaceTop(files, [Top EXCEPT !.listing = TRUE,
                                         !.entries =
                                           tree.listing[RealPath(Rel(Top.dirPath))]])
               ELSE IF outcome = "return" THEN AfterListFailure(files) ELSE <<>>
        /\ pc' = IF outcome = "throw" THEN "failed" ELSE pc
        /\ error' = IF outcome = "throw" THEN << "readdir error" >> ELSE error
  /\ UNCHANGED << unit, inputs, batch, results, report, listed, started, completed >>

HasEntry == pc = "loop" /\ files # <<>> /\ Top.listing /\ Top.idx <= Len(Top.entries)

Entry == Top.entries[Top.idx]

Advanced == ReplaceTop(files, [Top EXCEPT !.idx = Top.idx + 1])

\* Faulty variant: only node_modules is pruned.
IsIgnoredDirNodeModules(entry) == entry.name = <<"node_modules">>

\* IGNORED_DIRS.has(entry.name)
IsIgnoredDir(entry) == entry.name \in IGNORED_DIRS

\* Faulty variant: the entry.isFile() test is left out.
IsCandidateAnyType(entry) == extname(entry.name) \in VALID_EXTENSIONS

\* entry.isFile() && VALID_EXTENSIONS.has(extname(entry.name))
IsCandidate(entry) == isFile(entry) /\ extname(entry.name) \in VALID_EXTENSIONS

\* if (IGNORED_DIRS.has(entry.name)) continue;
SkipIgnoredDir ==
  /\ HasEntry
  /\ isDirectory(Entry)
  /\ IsIgnoredDir(Entry)
  /\ files' = Advanced
  /\ UNCHANGED << unit, inputs, pc, batch, results, report, error, listed, started,
                  completed >>

\* yield* scanDirectory(fullPath): the inner generator starts and calls readdir.
EnterDirectory ==
  /\ HasEntry
  /\ isDirectory(Entry)
  /\ ~IsIgnoredDir(Entry)
  /\ LET fullPath == join(Top.dirPath, Entry.name)
     IN /\ files' = Append(Advanced, Frame(fullPath))
        /\ listed' = listed \cup { fullPath }
  /\ UNCHANGED << unit, inputs, pc, batch, results, report, error, started,
                  completed >>

\* An entry that is neither a directory nor a file with a valid extension.
SkipEntry ==
  /\ HasEntry
  /\ ~isDirectory(Entry)
  /\ ~IsCandidate(Entry)
  /\ files' = Advanced
  /\ UNCHANGED << unit, inputs, pc, batch, results, report, error, listed, started,
                  completed >>

\* The for loop of a frame is over: the generator of that directory returns.
LeaveDirectory ==
  /\ pc = "loop"
  /\ files # <<>>
  /\ Top.listing
  /\ Top.idx > Len(Top.entries)
  /\ files' = Pop(files)
  /\ UNCHANGED << unit, inputs, pc, batch, results, report, error, listed, started,
                  completed >>

(***************************************************************************)
(* processFile and processFiles.                                           *)
(***************************************************************************)
\* A promise of processFile: pending, or fulfilled with value <<>> (null) or
\* <<ComponentInfo>>, or rejected.
Pending(filePath) == [file |-> filePath, state |-> "pending", value |-> <<>>]

ComponentInfo(filePath, components) == [file |-> filePath, components |-> components]

\* Faulty variant: readFile is awaited outside the try statement.
processFileUncaught(filePath) ==
  IF readFileResolves(filePath)
    THEN LET components == extractComponents(readFile(filePath))
         IN [file |-> filePath, state |-> "fulfilled",
             value |-> IF Len(components) > 0
                         THEN << [file |-> filePath, components |-> components] >>
                         ELSE <<>>]
    ELSE [file |-> filePath, state |-> "rejected", value |-> <<>>]

\* Faulty variant: the components.length > 0 test is left out.
processFileKeepsEmpty(filePath) ==
  IF readFileResolves(filePath)
    THEN [file |-> filePath, state |-> "fulfilled",
          value |-> << [file |-> filePath,
                        components |-> extractComponents(readFile(filePath))] >>]
    ELSE [file |-> filePath, state |-> "fulfilled", value |-> <<>>]

\* processFile(filePath), once readFile has settled.
processFile(filePath) ==
  IF readFileResolves(filePath)
    THEN LET components == extractComponents(readFile(filePath))
         IN [file |-> filePath, state |-> "fulfilled",
             value |-> IF Len(components) > 0
                         THEN << ComponentInfo(filePath, components) >>
                         ELSE <<>>]
    ELSE \* catch (error) { } ; return null
         [file |-> filePath, state |-> "fulfilled", value |-> <<>>]

\* Faulty variant: the batch is awaited one push too late.
BatchFullOffByOne(b, size) == Len(b) > size

\* Faulty variant: the batch is never awaited inside the loop.
BatchFullNever(b, size) == FALSE

\* if (batch.length >= batchSize)
BatchFull(b, size) == Len(b) >= size

\* yield fullPath; in the for await loop: batch.push(processFile(filePath))
\* and the test of the batch length.
YieldFile ==
  /\ HasEntry
  /\ ~isDirectory(Entry)
  /\ IsCandidate(Entry)
  /\ LET filePath == join(Top.dirPath, Entry.name)
         pushed == Append(batch, Pending(filePath))
     IN /\ batch' = pushed
        /\ started' = Append(started, filePath)
        /\ pc' = IF BatchFull(pushed, batchSize) THEN "awaitBatch" ELSE "loop"
  /\ files' = Advanced
  /\ UNCHANGED << unit, inputs, results, report, error, listed, completed >>

\* The promise of one processFile call settles, once its readFile has.
ReadSettles(i) ==
  /\ i \in DOMAIN batch
  /\ batch[i].state = "pending"
  /\ RealPath(Rel(batch[i].file)) \notin hung
  /\ batch' = [batch EXCEPT ![i] = processFile(batch[i].file)]
  /\ completed' = Append(completed, batch[i].file)
  /\ UNCHANGED << unit, inputs, pc, files, results, report, error, listed, started >>

\* Faulty variant: Promise.race in place of Promise.all.
AllFulfilledRace(b) == \E i \in DOMAIN b : b[i].state = "fulfilled"

\* Faulty variant: the await is missing.
AllFulfilledNoWait(b) == TRUE

\* Promise.all(batch) fulfils when every promise is fulfilled.
AllFulfilled(b) == \A i \in DOMAIN b : b[i].state = "fulfilled"

\* Promise.all(batch) rejects as soon as one promise is rejected.
AnyRejected(b) == \E i \in DOMAIN b : b[i].state = "rejected"

\* Faulty variant: the values are taken last promise first.
batchResultsReversed(b) == [i \in DOMAIN b |-> b[Len(b) + 1 - i].value]

\* batchResults: the values of Promise.all, in the order of the array.
batchResults(b) == [i \in DOMAIN b |-> b[i].value]

\* batchResults.filter((r) => r !== null), spread.
RECURSIVE filterNotNull(_)
filterNotNull(values) ==
  IF values = <<>> THEN <<>>
  ELSE Head(values) \o filterNotNull(Tail(values))

\* await Promise.all(batch) resumes: the push into results and batch = [],
\* or the rejection that leaves processFiles and countReactComponents.
AwaitResumes(next) ==
  /\ AllFulfilled(batch) \/ AnyRejected(batch)
  /\ IF AnyRejected(batch)
       THEN /\ pc' = "failed"
            /\ error' = << "read error" >>
            /\ UNCHANGED << results, batch >>
       ELSE /\ pc' = next
            /\ results' = results \o filterNotNull(batchResults(batch))
            /\ batch' = <<>>
            /\ error' = error
  /\ UNCHANGED << unit, inputs, files, report, listed, started, completed >>

\* The await inside the loop.
BatchDone ==
  /\ pc = "awaitBatch"
  /\ AwaitResumes("loop")

\* Faulty variant: the batch left over after the loop is not awaited.
HasRemainingNever(b) == FALSE

\* // Process remaining files: if (batch.length > 0)
HasRemaining(b) == Len(b) > 0

\* The generator is exhausted: the for await loop ends.
ScanDone ==
  /\ pc = "loop"
  /\ files = <<>>
  /\ pc' = IF HasRemaining(batch) THEN "awaitFinal" ELSE "totals"
  /\ UNCHANGED << unit, inputs, files, batch, results, report, error, listed,
                  started, completed >>

\* The await after the loop ("Process remaining files").
FinalBatchDone ==
  /\ pc = "awaitFinal"
  /\ AwaitResumes("totals")

(***************************************************************************)
(* countReactComponents: the totals and the result.                        *)
(***************************************************************************)
\* Faulty variant: the reduce adds one per file instead of the number of names.
totalComponentsPerFile(componentsByFile) == Len(componentsByFile)

\* componentsByFile.reduce((sum, info) => sum + info.components.length, 0)
RECURSIVE totalComponents(_)
totalComponents(componentsByFile) ==
  IF componentsByFile = <<>> THEN 0
  ELSE Len(Head(componentsByFile).components)
         + totalComponents(Tail(componentsByFile))

CountResult(componentsByFile) ==
  [ totalComponents |-> totalComponents(componentsByFile),
    componentsByFile |-> componentsByFile,
    filesScanned |-> Len(componentsByFile) ]

ReturnReport ==
  /\ pc = "totals"
  /\ report' = << CountResult(results) >>
  /\ pc' = "done"
  /\ UNCHANGED << unit, inputs, files, batch, results, error, listed, started,
                  completed >>

(***************************************************************************)
(* Specification.                                                          *)
(***************************************************************************)
\* The state in which countReactComponents is called.
Called ==
  /\ pc = "stat"
  /\ files = <<>>
  /\ batch = <<>>
  /\ results = <<>>
  /\ report = <<>>
  /\ error = <<>>
  /\ listed = {}
  /\ started = <<>>
  /\ completed = <<>>

\* The main tree with every root, every set of failures and no read that
\* hangs, or a sample project with no failure.
Init ==
  /\ \/ /\ tree = MainTree
        /\ rootName \in RootNames
        /\ rootKind \in RootKinds
        /\ listFails \in SUBSET FlakyDirs
        /\ readFails \in SUBSET FlakyFiles
     \/ /\ tree \in SampleTrees
        /\ rootName = <<"proj">>
        /\ rootKind = "dir"
        /\ listFails = {}
        /\ readFails = {}
  /\ hung = {}
  /\ batchSize \in BatchSizes
  /\ Called
  /\ text = <<>>
  /\ upc = "idle"
  /\ names = <<>>
  /\ applied = {}

Next ==
  \/ StatRoot
  \/ ReaddirSettles
  \/ SkipIgnoredDir
  \/ EnterDirectory
  \/ SkipEntry
  \/ YieldFile
  \/ LeaveDirectory
  \/ \E i \in DOMAIN batch : ReadSettles(i)
  \/ BatchDone
  \/ ScanDone
  \/ FinalBatchDone
  \/ ReturnReport

Spec == Init /\ [][Next]_vars

\* Every continuation that is ready runs, and every fs call settles.
FairSpec == Spec /\ WF_vars(Next)

(***************************************************************************)
(* A scan in which the readFile of one file never settles.                 *)
(***************************************************************************)
HangInit ==
  /\ tree = MainTree
  /\ rootName \in RootNames
  /\ rootKind = "dir"
  /\ listFails \in SUBSET FlakyDirs
  /\ readFails \in SUBSET FlakyFiles
  /\ hung \in { { f } : f \in FlakyFiles }
  /\ batchSize \in BatchSizes
  /\ Called
  /\ text = <<>>
  /\ upc = "idle"
  /\ names = <<>>
  /\ applied = {}

HangSpec == HangInit /\ [][Next]_vars

(***************************************************************************)
(* extractComponents called alone on a text.                               *)
(***************************************************************************)
\* The longest text, in fragments.
MaxTextLen == 2

DeclarationForms ==
  { "function", "exportFunction", "exportDefaultFunction", "constArrow",
    "exportConstArrow", "exportConstFC", "classExtendsReact" }

PlainForms ==
  { "importReact", "importJsx", "importTsx", "returnJsx", "returnNumber",
    "returnParen", "returnCall" }

cA == << "A" >>
cUtil == << "U","t","i","l" >>
cUseApp == << "u","s","e","A","p","p" >>

DeclaredNames == { cApp, cTest, cUtil, cUtilHelper, cA, cUseApp }

Fragments ==
  { Frag(form, name) : form \in DeclarationForms, name \in DeclaredNames }
    \cup { Frag(form, NoName) : form \in PlainForms }
    \cup { Frag("exportDefaultName", cApp) }

Texts == UNION { [1..n -> Fragments] : n \in 0..MaxTextLen }

\* for (const pattern of COMPONENT_PATTERNS) content.matchAll(pattern): the
\* patterns the loop reaches.
patternsApplied(content) ==
  IF PreCheckRejects(content) THEN {} ELSE 1..NumPatterns

ExtractInit ==
  /\ text \in Texts
  /\ upc = "call"
  /\ names = <<>>
  /\ applied = {}
  /\ rootName = <<"proj">>
  /\ rootKind = "dir"
  /\ listFails = {}
  /\ readFails = {}
  /\ batchSize = DefaultBatchSize
  /\ tree = MainTree
  /\ hung = {}
  /\ Called

\* const components = extractComponents(content)
Extract ==
  /\ upc = "call"
  /\ names' = extractComponents(text)
  /\ applied' = patternsApplied(text)
  /\ upc' = "returned"
  /\ UNCHANGED << text, inputs, pc, files, batch, results, report, error,
                  listed, started, completed >>

ExtractNext == Extract

ExtractSpec == ExtractInit /\ [][ExtractNext]_vars


(***************************************************************************)
(* Vocabulary of the properties.                                           *)
(***************************************************************************)
Range(seq) == { seq[i] : i \in DOMAIN seq }

\* The position of a file in a history sequence, 0 when it is not in it.
PosIn(seq, f) ==
  IF f \in Range(seq) THEN CHOOSE i \in DOMAIN seq : seq[i] = f ELSE 0

\* The batch of the k-th file the traversal yielded.
BatchOf(k) == ((k - 1) \div batchSize) + 1

\* processFile calls that have not settled.
InFlight == Len(started) - Len(completed)

Returned == pc = "done" /\ report # <<>>

Findings == IF report = <<>> THEN <<>> ELSE report[1].componentsByFile

FindingFiles == { Findings[i].file : i \in DOMAIN Findings }

(***************************************************************************)
(* C1.  Every report returned has totalComponents equal to the number of   *)
(* names listed over all its findings and filesScanned equal to the        *)
(* number of its findings.                                                 *)
(***************************************************************************)
C1_TotalsMatchFindings ==
  \A r \in Range(report) :
    /\ r.totalComponents =
         Cardinality(UNION { { <<k, j>> : j \in DOMAIN r.componentsByFile[k].components }
                             : k \in DOMAIN r.componentsByFile })
    /\ r.filesScanned = Cardinality(DOMAIN r.componentsByFile)

\* A report of two findings and three names, after a read and a listing failed.
C1_Witness ==
  /\ Returned
  /\ report[1].filesScanned = 2
  /\ report[1].totalComponents = 3
  /\ readFails # {}
  /\ listFails # {}

(***************************************************************************)
(* C2.  Batch barrier: when processFile has been started for a file of a   *)
(* batch, every file of every earlier batch has settled.                   *)
(***************************************************************************)
C2_BatchBarrier ==
  \A i, j \in DOMAIN started :
    BatchOf(i) < BatchOf(j) => started[i] \in Range(completed)

\* A second batch is in flight, and the first one held a read that failed.
C2_Witness ==
  /\ Len(started) > batchSize
  /\ InFlight > 0
  /\ \E i \in 1..batchSize : Rel(started[i]) \in readFails

(***************************************************************************)
(* C3.  Bounded concurrency: the processFile calls started and not yet     *)
(* settled never number more than the batch size.                          *)
(***************************************************************************)
C3_BoundedConcurrency == InFlight <= batchSize

\* A full batch in flight while the traversal still has candidates to yield.
C3_Witness ==
  /\ pc = "awaitBatch"
  /\ InFlight = batchSize
  /\ files # <<>>


(***************************************************************************)
(* C4.  As claimed: the findings of a report are in the order in which the *)
(* processFile calls settled, so that of two findings of one batch the one *)
(* that settled first comes first.                                         *)
(***************************************************************************)
C4_CompletionOrder ==
  \A i, j \in DOMAIN Findings :
    LET f == Findings[i].file
        g == Findings[j].file
    IN (i < j /\ BatchOf(PosIn(started, f)) = BatchOf(PosIn(started, g)))
         => PosIn(completed, f) < PosIn(completed, g)

(***************************************************************************)
(* C4, amended.  The findings of a report are in the order in which the    *)
(* traversal yielded their files, whatever the order in which the reads    *)
(* settled.                                                                *)
(***************************************************************************)
C4_TraversalOrder ==
  \A i, j \in DOMAIN Findings :
    i < j => PosIn(started, Findings[i].file) < PosIn(started, Findings[j].file)

\* Two findings of a report whose reads settled in the opposite order.
C4_Witness ==
  /\ Returned
  /\ \E i, j \in DOMAIN Findings :
       /\ i < j
       /\ PosIn(completed, Findings[j].file) < PosIn(completed, Findings[i].file)

(***************************************************************************)
(* C5.  A candidate whose read fails gives no finding and fails neither    *)
(* its batch nor the scan: no error is raised, and in the report every     *)
(* other file that was yielded and whose text holds a name has a finding.  *)
(***************************************************************************)
C5_ReadFailureAbsorbed ==
  /\ (\E i \in DOMAIN completed : Rel(completed[i]) \in readFails)
       => (error = <<>> /\ pc # "failed")
  /\ Returned =>
       \A i \in DOMAIN started :
         LET f == started[i]
         IN IF Rel(f) \in readFails
              THEN f \notin FindingFiles
              ELSE extractComponents(tree.text[Rel(f)]) # <<>> => f \in FindingFiles

\* A report after the read of Button.jsx failed in a first batch of two: it
\* lists App.tsx of the same batch and Header.js of the next one.
C5_Witness ==
  /\ Returned
  /\ batchSize = 2
  /\ readFails = { pButton }
  /\ FindingFiles = { projectPath \o pApp, projectPath \o pHeader }


(***************************************************************************)
(* The tree, as the properties see it.                                     *)
(***************************************************************************)
\* The directory entry a relative path names.
EntryAt(p) ==
  LET dir == SubSeq(p, 1, Len(p) - 1)
      entries == tree.listing[dir]
  IN entries[CHOOSE i \in DOMAIN entries : entries[i].name = p[Len(p)]]

\* The directories on the way from the root to p, the root (<<>>) included.
Ancestors(p) == { SubSeq(p, 1, k) : k \in 0..(Len(p) - 1) }

\* Some directory below the root and above p bears an ignored name.
BelowIgnoredDir(p) == \E k \in 1..(Len(p) - 1) : p[k] \in IGNORED_DIRS

\* The name ends in one of the four extensions.
HasValidSuffix(name) ==
  /\ Len(name) >= 2
  /\ name[Len(name)] \in { "tsx", "ts", "jsx", "js" }
  /\ ~(Len(name) = 2 /\ name[1] = "")

\* The regular files of the tree with a valid suffix and no ignored directory
\* above them.
Candidates ==
  { p \in DOMAIN tree.text :
      EntryAt(p).type = "file" /\ HasValidSuffix(p[Len(p)]) /\ ~BelowIgnoredDir(p) }

StartedFiles == { Rel(started[i]) : i \in DOMAIN started }

TraversalOver == pc \in { "awaitFinal", "totals", "done" }

(***************************************************************************)
(* C6.  A directory that cannot be listed raises no error and gives no     *)
(* candidate from its subtree, and once the traversal is over every other  *)
(* candidate (in sibling directories, in the remaining entries of the      *)
(* ancestors) has been yielded.                                            *)
(***************************************************************************)
C6_UnlistableDirSkipped ==
  /\ (\E d \in listed : Rel(d) \in listFails) => (error = <<>> /\ pc # "failed")
  /\ \A p \in StartedFiles : Ancestors(p) \cap listFails = {}
  /\ TraversalOver =>
       \A p \in Candidates : Ancestors(p) \cap listFails = {} => p \in StartedFiles

\* src/lib.ts cannot be listed: Header.js is not yielded, and Button.jsx
\* before it and util.test.ts after it in src are.
C6_Witness ==
  /\ TraversalOver
  /\ listFails = { pLib }
  /\ projectPath \o pLib \in listed
  /\ StartedFiles = { pApp, pButton, pUtil }

(***************************************************************************)
(* C7.  A root that is missing or is not a directory: the scan fails with  *)
(* one error, no report is produced, no directory is listed and no file    *)
(* is read.                                                                *)
(***************************************************************************)
C7_InvalidRootFails ==
  rootKind # "dir" =>
    /\ report = <<>>
    /\ listed = {}
    /\ started = <<>>
    /\ pc \in { "stat", "failed" }
    /\ pc = "failed" => error = << "Invalid directory" >>
    /\ pc = "stat" => error = <<>>

\* The scan of a root that is a regular file has failed.
C7_Witness == pc = "failed" /\ rootKind = "file" /\ Len(error) = 1

(***************************************************************************)
(* C8.  A root that is a directory: whatever listings and reads fail, no   *)
(* error is ever raised and a report is eventually returned.               *)
(***************************************************************************)
C8_OnlyInvalidRootFails ==
  /\ [](rootKind = "dir" => (error = <<>> /\ pc # "failed"))
  /\ (rootKind = "dir") ~> Returned

\* A report returned after a listing and a read failed.
C8_Witness ==
  /\ Returned
  /\ rootKind = "dir"
  /\ pSrc \notin listFails
  /\ pLib \in listFails
  /\ pButton \in readFails
  /\ projectPath \o pButton \in Range(completed)

(***************************************************************************)
(* C9.  As claimed: no finding's path has a directory with an ignored      *)
(* name on it.                                                             *)
(***************************************************************************)
C9_NoIgnoredNameOnPath ==
  \A f \in FindingFiles : \A k \in 1..(Len(f) - 1) : f[k] \notin IGNORED_DIRS

(***************************************************************************)
(* C9, amended.  No file below a directory that the walk found under the   *)
(* root with an ignored name, at any depth, is read or is the path of a    *)
(* finding; the root itself may bear an ignored name.                      *)
(***************************************************************************)
C9_IgnoredDirsPruned ==
  /\ \A f \in FindingFiles : ~BelowIgnoredDir(Rel(f))
  /\ \A p \in StartedFiles : ~BelowIgnoredDir(p)
  /\ \A d \in listed : \A k \in DOMAIN Rel(d) : Rel(d)[k] \notin IGNORED_DIRS

\* A full report of a root named build: node_modules and src/build were met
\* and passed over.
C9_Witness ==
  /\ Returned
  /\ rootName \in IGNORED_DIRS
  /\ FindingFiles = { projectPath \o pApp, projectPath \o pButton, projectPath \o pHeader }
  /\ projectPath \o pNodeModules \notin listed
  /\ projectPath \o pBuild \notin listed

(***************************************************************************)
(* C10.  Only regular files whose extension is .tsx, .ts, .jsx or .js are  *)
(* yielded: every file read and every finding's path is one, and no other  *)
(* entry is read.                                                          *)
(***************************************************************************)
C10_SuffixFiltering ==
  /\ \A p \in StartedFiles :
       EntryAt(p).type = "file" /\ HasValidSuffix(p[Len(p)])
  /\ \A f \in FindingFiles :
       EntryAt(Rel(f)).type = "file" /\ HasValidSuffix(f[Len(f)])
  /\ \A p \in DOMAIN tree.text : ~HasValidSuffix(p[Len(p)]) => p \notin StartedFiles

\* The walk is over: README.md, .ts and the link link.ts were not read, and
\* the four candidates were.
C10_Witness ==
  /\ TraversalOver
  /\ Cardinality(StartedFiles) = 4
  /\ StartedFiles \cap { pReadme, pDotTs, pLink } = {}


(***************************************************************************)
(* The text, as the properties see it.                                     *)
(***************************************************************************)
ExtractReturned == upc = "returned"

\* The forms whose text holds "React", "jsx", "tsx", "return (" or "return(".
IndicatorForms ==
  { "importReact", "exportConstFC", "classExtendsReact", "importJsx",
    "importTsx", "returnParen", "returnCall" }

TextHasIndicator(t) == \E i \in DOMAIN t : t[i].form \in IndicatorForms

\* The text holds "return", optional white space and "<".
TextHasJsxReturn(t) == \E i \in DOMAIN t : t[i].form = "returnJsx"

\* The names some pattern rule captures in the text.
CapturedNames(t) ==
  { t[i].name : i \in { k \in DOMAIN t : t[k].form \in DeclarationForms } }

\* The number of captures of a name in the text, over the six rules.
RulesMatching(form) == { p \in 1..6 : form \in PatternForms(p) }

Captures(t, n) ==
  { <<i, p>> \in (DOMAIN t) \X (1..6) : t[i].name = n /\ p \in RulesMatching(t[i].form) }

(***************************************************************************)
(* C11.  Denylist exclusion: the names returned never hold Test, Mock,     *)
(* Util, Helper or Config, whatever rules capture them; a captured name    *)
(* that only contains one of them (UtilHelper) is returned when the text   *)
(* passes the pre-check.                                                   *)
(***************************************************************************)
C11_DenylistExclusion ==
  ExtractReturned =>
    /\ \A i \in DOMAIN names :
         names[i] \notin { <<"T","e","s","t">>, <<"M","o","c","k">>, <<"U","t","i","l">>,
                           <<"H","e","l","p","e","r">>, <<"C","o","n","f","i","g">> }
    /\ (cUtilHelper \in CapturedNames(text)
          /\ (TextHasIndicator(text) \/ TextHasJsxReturn(text)))
         => cUtilHelper \in Range(names)

\* Util, captured by two rules, is left out, and UtilHelper next to it is kept.
C11_Witness ==
  /\ ExtractReturned
  /\ text = << Frag("exportFunction", cUtil), Frag("exportConstFC", cUtilHelper) >>
  /\ Cardinality(Captures(text, cUtil)) = 2
  /\ names = << cUtilHelper >>

(***************************************************************************)
(* C12.  Uniqueness: the names returned hold every name at most once, also *)
(* when several rules, or one rule several times, capture the same name.   *)
(***************************************************************************)
C12_Uniqueness ==
  ExtractReturned =>
    \A i, j \in DOMAIN names : names[i] = names[j] => i = j

\* App is captured four times, twice by each of two rules, and returned once.
C12_Witness ==
  /\ ExtractReturned
  /\ text = << Frag("exportConstFC", cApp), Frag("exportConstFC", cApp) >>
  /\ Cardinality(Captures(text, cApp)) = 4
  /\ names = << cApp >>


(***************************************************************************)
(* C13.  Every finding lists at least one name: a file that was read and   *)
(* whose extraction gives no name has no finding, is not counted in        *)
(* filesScanned and raises no error.                                       *)
(***************************************************************************)
C13_FindingsNonEmpty ==
  LET read == { f \in Range(completed) : Rel(f) \notin readFails }
      empty == { f \in read : extractComponents(tree.text[Rel(f)]) = <<>> }
  IN /\ \A i \in DOMAIN results : Len(results[i].components) >= 1
     /\ \A i \in DOMAIN Findings : Len(Findings[i].components) >= 1
     /\ empty # {} => (error = <<>> /\ pc # "failed")
     /\ Returned =>
          /\ FindingFiles \cap empty = {}
          /\ report[1].filesScanned = Cardinality(read \ empty)

\* util.test.ts was read and gave no name: the report counts the three
\* other files.
C13_Witness ==
  /\ Returned
  /\ projectPath \o pUtil \in Range(completed)
  /\ readFails = {}
  /\ report[1].filesScanned = 3
  /\ projectPath \o pUtil \notin FindingFiles


(***************************************************************************)
(* C14.  As claimed (scenario E): the text                                 *)
(*   export function UtilHelper() { return 1; }                            *)
(* yields the name UtilHelper, so that its file has a finding.             *)
(***************************************************************************)
ScenarioE == << Frag("exportFunction", cUtilHelper), Frag("returnNumber", NoName) >>

C14_ScenarioEAccepted ==
  (ExtractReturned /\ text = ScenarioE) => names = << cUtilHelper >>

(***************************************************************************)
(* C14, amended.  The text of scenario E holds no indicator and no markup  *)
(* return: the pre-check rejects it, no rule is applied, no name is        *)
(* returned and its file has no finding.  The same declaration followed by *)
(* a markup return yields UtilHelper.                                      *)
(***************************************************************************)
C14_ScenarioERejected ==
  ExtractReturned =>
    /\ text = ScenarioE => (names = <<>> /\ applied = {})
    /\ text = << Frag("exportFunction", cUtilHelper), Frag("returnJsx", NoName) >>
         => names = << cUtilHelper >>

\* extractComponents has returned from the text of scenario E.
C14_Witness ==
  /\ ExtractReturned
  /\ text = ScenarioE
  /\ cUtilHelper \in CapturedNames(text)
  /\ Len(names) = 0

(***************************************************************************)
(* C15.  Pre-check gating: the empty array is returned with no rule        *)
(* applied exactly when the text holds none of the indicators and no       *)
(* "return" followed by optional white space and "<"; otherwise all six    *)
(* rules are applied, and the names returned are the captured names that   *)
(* pass the name filter.                                                   *)
(***************************************************************************)
C15_PreCheckGating ==
  ExtractReturned =>
    IF ~TextHasIndicator(text) /\ ~TextHasJsxReturn(text)
      THEN applied = {} /\ names = <<>>
      ELSE /\ applied = 1..6
           /\ Range(names) =
                { n \in CapturedNames(text) :
                    Len(n) > 1 /\ n[1] \in UpperCase /\ n \notin REJECTED_NAMES }

\* A text with no indicator that passes on its markup return alone.
C15_Witness ==
  /\ ExtractReturned
  /\ text = << Frag("function", cApp), Frag("returnJsx", NoName) >>
  /\ ~TextHasIndicator(text)
  /\ applied = 1..6
  /\ names = << cApp >>


(***************************************************************************)
(* C16.  Scenario D: the scan of a root that holds only App.tsx,           *)
(* Button.tsx and Header.tsx of the sample project, wherever they are      *)
(* placed in directories that are not ignored, returns a report with       *)
(* total 4 and 3 files.                                                    *)
(***************************************************************************)
IsSampleProject == tree \in SampleTrees

C16_ScenarioD ==
  (IsSampleProject /\ pc = "done") =>
    /\ Len(report) = 1
    /\ report[1].totalComponents = 4
    /\ report[1].filesScanned = 3

\* The layout of example-usage.md: src/App.tsx and the two others in
\* src/components.
C16_Witness ==
  /\ Returned
  /\ tree = SampleTree( (<<"App","tsx">> :> pSrc) @@ (<<"Button","tsx">> :> pComponents)
                         @@ (<<"Header","tsx">> :> pComponents) )
  /\ report[1].totalComponents = 4
  /\ report[1].filesScanned = 3


(***************************************************************************)
(* C17.  Idempotence: the report depends on the tree and on the failures   *)
(* only, not on the order in which the reads settle.  Its findings are,    *)
(* as a set, the candidates below listable directories whose read          *)
(* succeeds and whose text holds a name, each with the names of its text;  *)
(* the two totals count that set.  Two scans of the same unchanged tree    *)
(* therefore return equal totals and set-equal findings.                   *)
(***************************************************************************)
ExpectedFindings ==
  { [file |-> projectPath \o p, components |-> extractComponents(tree.text[p])] :
      p \in { q \in Candidates : /\ Ancestors(q) \cap listFails = {}
                                 /\ q \notin readFails
                                 /\ extractComponents(tree.text[q]) # <<>> } }

C17_Idempotence ==
  Returned =>
    /\ Range(Findings) = ExpectedFindings
    /\ report[1].filesScanned = Cardinality(ExpectedFindings)
    /\ report[1].totalComponents =
         Cardinality(UNION { { <<x.file, j>> : j \in DOMAIN x.components }
                             : x \in ExpectedFindings })

\* A report of three findings whose reads settled in another order than
\* they were started.
C17_Witness ==
  /\ Returned
  /\ Len(Findings) = 3
  /\ completed # started

(***************************************************************************)
(* C18.  Every candidate the traversal yields is processed exactly once,   *)
(* those of the last, partial batch included: no path is started twice,    *)
(* settles twice or has two findings, and when the report is returned      *)
(* every path started has settled and has its finding if its read          *)
(* succeeded and its text holds a name.                                    *)
(***************************************************************************)
NoRepeat(seq) == \A i, j \in DOMAIN seq : seq[i] = seq[j] => i = j

C18_ProcessedOnce ==
  /\ NoRepeat(started)
  /\ NoRepeat(completed)
  /\ NoRepeat([i \in DOMAIN results |-> results[i].file])
  /\ Range(completed) \subseteq Range(started)
  /\ Returned =>
       /\ NoRepeat([i \in DOMAIN Findings |-> Findings[i].file])
       /\ Range(completed) = Range(started)
       /\ \A f \in Range(started) :
            (Rel(f) \notin readFails /\ extractComponents(tree.text[Rel(f)]) # <<>>)
              => f \in FindingFiles

\* Three sample files in batches of two: the file of the last, partial batch
\* has its finding.
C18_Witness ==
  /\ Returned
  /\ IsSampleProject
  /\ batchSize = 2
  /\ Len(started) = 3
  /\ started[3] \in FindingFiles

(***************************************************************************)
(* C19.  results is appended to only by a step taken when every            *)
(* processFile call started so far has settled, and that step starts and   *)
(* settles none.                                                           *)
(***************************************************************************)
C19_AppendAfterBatch ==
  [][ results' # results =>
        /\ pc \in { "awaitBatch", "awaitFinal" }
        /\ Len(completed) = Len(started)
        /\ started' = started
        /\ completed' = completed ]_vars

\* A batch of two findings has been appended while the traversal goes on.
C19_Witness ==
  /\ Len(results) = 2
  /\ pc = "loop"
  /\ files # <<>>
  /\ Len(started) = 2
  /\ Len(completed) = 2

(***************************************************************************)
(* C20.  No cancellation, no timeout: once processFile has been started    *)
(* for a file whose read never settles, no finding of its batch is ever    *)
(* appended, no file of a later batch is ever started, and                 *)
(* countReactComponents neither returns a report nor raises an error.      *)
(***************************************************************************)
C20_HungReadStalls ==
  \A i \in DOMAIN started :
    Rel(started[i]) \in hung =>
      /\ pc \in { "loop", "awaitBatch", "awaitFinal" }
      /\ report = <<>>
      /\ error = <<>>
      /\ Len(started) <= BatchOf(i) * batchSize
      /\ \A k \in DOMAIN started :
           BatchOf(k) = BatchOf(i) => \A j \in DOMAIN results : results[j].file # started[k]

\* The scan is stalled for good on a full batch: Button.jsx hangs, App.tsx of
\* the same batch has settled, and src still has entries to walk.
C20_Witness ==
  /\ hung = { pButton }
  /\ batchSize = 2
  /\ pc = "awaitBatch"
  /\ Range(completed) = { projectPath \o pApp }
  /\ Len(started) = 2
  /\ files # <<>>
  /\ ~ENABLED Next


(***************************************************************************)
(* C21.  Every name returned starts with an uppercase letter and is        *)
(* longer than one character: a declaration named by a single uppercase    *)
(* letter is captured by the rules of its form and never returned, and a   *)
(* declaration whose name starts in lower case is not captured.            *)
(***************************************************************************)
C21_NameShape ==
  ExtractReturned =>
    /\ \A i \in DOMAIN names : Len(names[i]) > 1 /\ names[i][1] \in UpperCase
    /\ cA \notin Range(names)
    /\ cUseApp \notin Range(names)

\* The one-letter component A is captured by two rules next to App, the text
\* passes the pre-check, and App alone is returned.
C21_Witness ==
  /\ ExtractReturned
  /\ text = << Frag("exportConstFC", cA), Frag("function", cApp) >>
  /\ Cardinality(Captures(text, cA)) = 2
  /\ applied = 1..6
  /\ names = << cApp >>


(***************************************************************************)
(* C22.  Bounded traversal state: the suspended frames of scanDirectory    *)
(* are, outermost first, the root and the directories on the path to the   *)
(* directory being walked, one frame a directory; a frame holds the        *)
(* listing of its own directory and nothing else.  There are never more    *)
(* frames than the tree is deep, however many files have been yielded.     *)
(***************************************************************************)
\* The depth of the deepest directory of the tree, the root having depth 1.
TreeDepth ==
  CHOOSE d \in 1..(Cardinality(DOMAIN tree.listing) + 1) :
    /\ \E p \in DOMAIN tree.listing : Len(p) + 1 = d
    /\ \A p \in DOMAIN tree.listing : Len(p) + 1 <= d

C22_BoundedTraversalState ==
  /\ Len(files) <= TreeDepth
  /\ \A k \in DOMAIN files :
       /\ Len(files[k].dirPath) = k
       /\ \A j \in 1..k : files[j].dirPath = SubSeq(files[k].dirPath, 1, j)
       /\ \/ files[k].entries = <<>>
          \/ /\ Rel(files[k].dirPath) \in DOMAIN tree.listing
             /\ files[k].entries = tree.listing[Rel(files[k].dirPath)]
       /\ files[k].idx <= Len(files[k].entries) + 1

\* Three frames, for the root, src and src/lib.ts, are suspended after two
\* files were yielded; the tree holds four candidates and nine files.
C22_Witness ==
  /\ tree = MainTree
  /\ Len(files) = 3
  /\ Top.dirPath = projectPath \o pLib
  /\ Top.listing
  /\ Len(started) = 2
  /\ Cardinality(Candidates) > TreeDepth


(***************************************************************************)
(* C23.  Back-pressure.  While processFiles awaits a full batch the        *)
(* generator is suspended at its yield: no step of the traversal is taken, *)
(* no directory is listed and no file is started; the traversal only moves *)
(* when every processFile call that has not settled belongs to the batch   *)
(* being filled, which is not full.  Before the batch is full the reads in *)
(* flight block neither the listing the generator waits for nor one        *)
(* another, so that listings and reads interleave.                         *)
(***************************************************************************)
TraversalStep == files' # files \/ listed' # listed \/ started' # started

Unsettled == { f \in Range(started) : f \notin Range(completed) }

C23_BackPressure ==
  /\ [][ pc = "awaitBatch" => ~TraversalStep ]_vars
  /\ [][ (TraversalStep /\ pc # "stat") =>
           /\ pc = "loop"
           /\ Len(batch) < batchSize
           /\ Unsettled \subseteq { batch[i].file : i \in DOMAIN batch } ]_vars
  /\ [] ( (pc = "loop" /\ files # <<>> /\ ~Top.listing) => ENABLED ReaddirSettles )
  /\ [] ( \A i \in DOMAIN batch :
            (batch[i].state = "pending" /\ RealPath(Rel(batch[i].file)) \notin hung)
              => ENABLED ReadSettles(i) )

\* The listing of src has settled while the read of App.tsx, yielded before
\* src was entered, is still in flight.
C23_Witness ==
  /\ tree = MainTree
  /\ pc = "loop"
  /\ started = << projectPath \o pApp >>
  /\ completed = <<>>
  /\ Len(files) = 2
  /\ Top.dirPath = projectPath \o pSrc
  /\ Top.listing


(***************************************************************************)
(* C24.  Termination: when the root is a directory and every readdir and   *)
(* every readFile settles, a report is eventually returned; once it is     *)
(* returned no processFile call is unsettled, no promise of the batch is   *)
(* pending and no generator frame is left.                                 *)
(***************************************************************************)
Quiescent ==
  /\ InFlight = 0
  /\ \A i \in DOMAIN batch : batch[i].state # "pending"
  /\ files = <<>>

C24_Termination ==
  /\ (rootKind = "dir") ~> (Returned /\ Quiescent)
  /\ [](Returned => Quiescent)

\* The whole main tree was walked, the read of App.tsx failed, the four
\* calls have settled and the report is returned.
C24_Witness ==
  /\ Returned
  /\ tree = MainTree
  /\ listFails = {}
  /\ readFails = { pApp }
  /\ Len(started) = 4
  /\ Len(completed) = 4
  /\ batch = <<>>


(***************************************************************************)
(* C25.  An entry that is a symbolic link is neither descended into nor    *)
(* yielded, whether it points to a directory or to a file with a valid     *)
(* extension: every directory listed is reached through directories only   *)
(* and every file read is a regular file.  A step that enters a directory  *)
(* enters one whose real path has not been listed before, so the link      *)
(* from src/lib.ts back to src is not a cycle for the walk.                *)
(***************************************************************************)
\* The entries on the way from the root to p, p included.
TypesOn(p) == { EntryAt(SubSeq(p, 1, k)).type : k \in 1..Len(p) }

C25_LinksNotFollowed ==
  /\ [] ( /\ \A d \in listed : TypesOn(Rel(d)) \subseteq { "dir" }
          /\ \A p \in StartedFiles :
               /\ TypesOn(SubSeq(p, 1, Len(p) - 1)) \subseteq { "dir" }
               /\ EntryAt(p).type = "file"
          /\ \A d, e \in listed : RealPath(Rel(d)) = RealPath(Rel(e)) => d = e )
  /\ [][ Len(files') > Len(files) =>
           /\ files'[Len(files')].dirPath \notin listed
           /\ listed' = listed \cup { files'[Len(files')].dirPath }
           /\ RealPath(Rel(files'[Len(files')].dirPath))
                \notin { RealPath(Rel(d)) : d \in listed } ]_vars

\* The walk of the main tree is over: the three directories were listed,
\* the links src/link.ts and src/lib.ts/up were met and passed over.
C25_Witness ==
  /\ TraversalOver
  /\ tree = MainTree
  /\ listed = { projectPath, projectPath \o pSrc, projectPath \o pLib }
  /\ RealPath(pUp) = pSrc
  /\ EntryAt(pUp).type = "link"
  /\ EntryAt(pLink).type = "link"
  /\ projectPath \o pLink \notin Range(started)
  /\ projectPath \o pHeader \in Range(started)


(***************************************************************************)
(* C26.  Root exemption: IGNORED_DIRS is looked up for the entries of a    *)
(* listing only.  A root that is a directory is listed whatever its name,  *)
(* and when its listing succeeds every candidate directly inside it that   *)
(* can be read and declares a component has its finding in the report,     *)
(* also when the root is named build.                                      *)
(***************************************************************************)
\* The candidates that are entries of the root itself.
RootCandidates == { p \in Candidates : Len(p) = 1 }

C26_RootExemption ==
  /\ (rootKind = "dir" /\ pc # "stat") => projectPath \in listed
  /\ (Returned /\ <<>> \notin listFails) =>
       \A p \in RootCandidates :
         (p \notin readFails /\ extractComponents(tree.text[p]) # <<>>)
           => \E i \in DOMAIN Findings :
                /\ Findings[i].file = << rootName >> \o p
                /\ Findings[i].components = extractComponents(tree.text[p])

\* A root named build whose only listable directory is itself: the report
\* holds the finding of build/App.tsx and no other.
C26_Witness ==
  /\ Returned
  /\ rootName = <<"build">>
  /\ rootName \in IGNORED_DIRS
  /\ listFails = { pSrc }
  /\ Len(Findings) = 1
  /\ Findings[1] = [file |-> << <<"build">>, <<"App","tsx">> >>, components |-> << cApp >>]

=============================================================================
